---- MODULE Spec2Model ----
(***************************************************************************)
(* Model of aux_tasks/synthetic/run_synthetic.py: main(), train() and the  *)
(* jitted _train_step().                                                   *)
(*                                                                         *)
(* Numbers: float64 values are abstracted by the field of integers modulo  *)
(* Modulus, in which +, -, * and / are exact, plus one absorbing non-finite*)
(* value NaN (the code's inf and nan).  The feature dimension is the       *)
(* configured d = 1, so a row of Phi, a weight vector and a covariance     *)
(* matrix are one number each; Phi is indexed by state, Psi by state and   *)
(* task, the explicit weight matrix by task (its columns).  States and     *)
(* tasks are numbered from 1.                                              *)
(*                                                                         *)
(* Generator states (jax PRNG keys) are nodes <<seed, depth, index>> of    *)
(* the split tree; what is drawn from a key is a fixed function of the key.*)
(***************************************************************************)
EXTENDS Integers, Sequences, FiniteSets, TLC

\* ------------------------------------------------------------ bounds ----
S == 3                      \* config.S, number of states
T == 2                      \* config.T, number of aux. tasks
main_batch_size == 3        \* config.main_batch_size
covariance_batch_size == 2  \* config.covariance_batch_size
weight_batch_size == 2      \* config.weight_batch_size
MaxSeed == 1                \* config.seed ranges over 0..MaxSeed
MaxEpochs == 7              \* config.num_epochs ranges over 0..MaxEpochs
every_steps == 3            \* period of the checkpoint hook: 5000 at line 382,
                            \* scaled down so that runs pass several multiples

\* ------------------------------------------------- program constants ----
d == 1                      \* config.d
Modulus == 31               \* size of the number field standing for float64

\* ------------------------------------------------------------ numbers ----
NaN == Modulus

Num(n) == n % Modulus
Inv(b) == CHOOSE x \in 1..(Modulus - 1) : (x * b) % Modulus = 1
Add(a, b) == IF a = NaN \/ b = NaN THEN NaN ELSE (a + b) % Modulus
Sub(a, b) == IF a = NaN \/ b = NaN THEN NaN ELSE (a - b + Modulus) % Modulus
Mul(a, b) == IF a = NaN \/ b = NaN THEN NaN ELSE (a * b) % Modulus
Div(a, b) == IF a = NaN \/ b = NaN \/ b = 0 THEN NaN ELSE (a * Inv(b)) % Modulus

RECURSIVE SumSeq(_)
SumSeq(xs) == IF xs = <<>> THEN 0 ELSE Add(Head(xs), SumSeq(Tail(xs)))

Range(f) == {f[i] : i \in DOMAIN f}

\* jnp.linalg.norm of a row of one entry: the absolute value, read on the
\* representatives -(Modulus-1)/2 .. (Modulus-1)/2.
Norm(x) == IF x = NaN THEN NaN ELSE IF 2 * x > Modulus THEN Modulus - x ELSE x

\* jnp.linalg.pinv of a 1x1 matrix.
Pinv(x) == IF x = NaN THEN NaN ELSE IF x = 0 THEN 0 ELSE Inv(x)

learning_rate == Div(1, Num(100))   \* config.lr = 0.01
kappa == Div(Num(9), Num(10))       \* config.kappa = 0.9
norm_rate == Div(1, Num(100))       \* the 0.01 of the running norm estimate

\* ------------------------------------------------------ configuration ----
Methods == {"explicit", "oracle", "naive", "naive++", "lissa"}
MethodTags == Methods \cup {"lisa"}
Optimizers == {"sgd", "adam"}

None == <<>>
Some(v) == <<v>>

\* ------------------------------------------------- generator and draws ----
PRNGKey(seed) == <<seed, 0, 0>>
split(key, num) == [i \in 1..num |-> <<key[1], key[2] + 1, key[3] * num + (i - 1)>>]
\* The bits a key yields for the i-th number drawn from it: a fixed mixing of
\* the key and i.
Mix(a, b) == (((a * a + 7 * b + 3) % 9973) * (b + 1) + a) % 9973
Bits(key, i) ==
  Mix(Mix((101 * key[1] + 37 * key[2] + 11 * key[3]) % 9973, i), key[2] % 9973)
normal(key, n) == [i \in 1..n |-> Bits(key, i) % Modulus]
randint(key, n, maxval) == [i \in 1..n |-> (Bits(key, i) % maxval) + 1]

\* utils.draw_states: batch indices drawn from a split of the key, and the
\* advanced key.
draw_states(num, batch, key) ==
  LET ks == split(key, 2) IN <<randint(ks[2], batch, num), ks[1]>>

\* utils.compute_max_feature_norm: the largest row norm.
compute_max_feature_norm(features) ==
  IF \E i \in DOMAIN features : features[i] = NaN THEN NaN
  ELSE CHOOSE m \in {Norm(features[i]) : i \in DOMAIN features} :
         \A i \in DOMAIN features : Norm(features[i]) <= m

Rows(Phi, states) == [i \in DOMAIN states |-> Phi[states[i]]]

\* estimates.naive_inverse_covariance_matrix: inverse of the empirical Gram
\* matrix of J sampled rows.
naive_inverse_covariance_matrix(Phi, key, J) ==
  LET dr == draw_states(S, J, key)
      feats == Rows(Phi, dr[1])
      gram == Div(SumSeq([i \in 1..J |-> Mul(feats[i], feats[i])]), Num(J))
  IN <<Div(1, gram), dr[2]>>

\* estimates.lissa_inverse_covariance_matrix: Neumann series over J sampled
\* rank-one terms, damped by kappa over the squared feature norm.
RECURSIVE Neumann(_, _, _)
Neumann(A, alpha, feats) ==
  IF feats = <<>> THEN A
  ELSE Neumann(Add(alpha, Mul(Sub(1, Mul(alpha, Mul(Head(feats), Head(feats)))), A)),
               alpha, Tail(feats))

lissa_inverse_covariance_matrix(Phi, key, J, lissa_kappa, feature_norm) ==
  LET dr == draw_states(S, J, key)
      norm == IF feature_norm = None THEN compute_max_feature_norm(Phi)
              ELSE feature_norm[1]
      alpha == Div(lissa_kappa, Mul(norm, norm))
  IN <<Neumann(alpha, alpha, Rows(Phi, dr[1])), dr[2]>>

\* ------------------------------------------------------- _train_step ----
Call(fn, key) == <<fn, key>>

\* Sequencing: the value of one statement, named in the statements after it.
Bind(x, Rest(_)) == Rest(x)

\* Lines 268-271: a weight vector from a covariance estimate and the
\* weight states.
Solve(Phi, Psi, task, cov, ws) ==
  Div(Mul(cov, SumSeq([i \in DOMAIN ws |-> Mul(Phi[ws[i]], Psi[ws[i]][task])])),
      Num(Len(ws)))

\* The locals of lines 215-271 once both weights are computed.
Implicit(Phi, Psi, task, c1, c2, ws1, ws2, k, calls) ==
  [weight_1 |-> Solve(Phi, Psi, task, c1, ws1),
   weight_2 |-> Solve(Phi, Psi, task, c2, ws2),
   covariance_1 |-> c1, covariance_2 |-> c2,
   weight_states_1 |-> ws1, weight_states_2 |-> ws2,
   key |-> k, calls |-> calls, raised |-> ""]

\* Lines 217-222: the explicit method reads the column of the task.
ExplicitWeights(explicit_weight_matrix, task, key) ==
  [weight_1 |-> explicit_weight_matrix[task],
   weight_2 |-> explicit_weight_matrix[task],
   covariance_1 |-> None, covariance_2 |-> None,
   weight_states_1 |-> <<>>, weight_states_2 |-> <<>>,
   key |-> key, calls |-> <<>>, raised |-> ""]

\* Faulty variant of OracleWeights: the weight states are drawn like those
\* of the naive method instead of being all states.
OracleWeightsSampled(Phi, Psi, task, key) ==
  Bind(Mul(Pinv(SumSeq([s \in 1..S |-> Mul(Phi[s], Phi[s])])), Num(S)), LAMBDA c :
  Bind(draw_states(S, weight_batch_size, key), LAMBDA w1 :
    Implicit(Phi, Psi, task, c, c, w1[1], w1[1], w1[2],
             <<Call("draw_weight_states", key)>>)))

\* Lines 225-232 and 268-271.
OracleWeights(Phi, Psi, task, key) ==
  Bind(Mul(Pinv(SumSeq([s \in 1..S |-> Mul(Phi[s], Phi[s])])), Num(S)), LAMBDA c :
  Bind([s \in 1..S |-> s], LAMBDA ws :
    Implicit(Phi, Psi, task, c, c, ws, ws, key, <<>>)))

\* Lines 233-241 and 268-271.
NaiveWeights(Phi, Psi, task, key) ==
  Bind(naive_inverse_covariance_matrix(Phi, key, covariance_batch_size), LAMBDA e1 :
  Bind(draw_states(S, weight_batch_size, e1[2]), LAMBDA w1 :
    Implicit(Phi, Psi, task, e1[1], e1[1], w1[1], w1[1], w1[2],
             <<Call("naive_inverse_covariance_matrix", key),
               Call("draw_weight_states", e1[2])>>)))

\* Faulty variant of NaivePlusPlusWeights: the second estimator call is given
\* the key the first one was given, not the key the first one returned.
NaivePlusPlusWeightsReusedKey(Phi, Psi, task, key) ==
  Bind(naive_inverse_covariance_matrix(Phi, key, covariance_batch_size), LAMBDA e1 :
  Bind(naive_inverse_covariance_matrix(Phi, key, covariance_batch_size), LAMBDA e2 :
  Bind(draw_states(S, weight_batch_size, e2[2]), LAMBDA w1 :
  Bind(draw_states(S, weight_batch_size, w1[2]), LAMBDA w2 :
    Implicit(Phi, Psi, task, e1[1], e2[1], w1[1], w2[1], w2[2],
             <<Call("naive_inverse_covariance_matrix", key),
               Call("naive_inverse_covariance_matrix", key),
               Call("draw_weight_states", e2[2]),
               Call("draw_weight_states", w1[2])>>)))))

\* Lines 242-252 and 268-271.
NaivePlusPlusWeights(Phi, Psi, task, key) ==
  Bind(naive_inverse_covariance_matrix(Phi, key, covariance_batch_size), LAMBDA e1 :
  Bind(naive_inverse_covariance_matrix(Phi, e1[2], covariance_batch_size), LAMBDA e2 :
  Bind(draw_states(S, weight_batch_size, e2[2]), LAMBDA w1 :
  Bind(draw_states(S, weight_batch_size, w1[2]), LAMBDA w2 :
    Implicit(Phi, Psi, task, e1[1], e2[1], w1[1], w2[1], w2[2],
             <<Call("naive_inverse_covariance_matrix", key),
               Call("naive_inverse_covariance_matrix", e1[2]),
               Call("draw_weight_states", e2[2]),
               Call("draw_weight_states", w1[2])>>)))))

\* Lines 253-264 and 268-271.
LissaWeights(Phi, Psi, task, key) ==
  Bind(lissa_inverse_covariance_matrix(Phi, key, covariance_batch_size, kappa, None),
       LAMBDA e1 :
  Bind(lissa_inverse_covariance_matrix(Phi, e1[2], covariance_batch_size, kappa, None),
       LAMBDA e2 :
  Bind(draw_states(S, weight_batch_size, e2[2]), LAMBDA w1 :
  Bind(draw_states(S, weight_batch_size, w1[2]), LAMBDA w2 :
    Implicit(Phi, Psi, task, e1[1], e2[1], w1[1], w2[1], w2[2],
             <<Call("lissa_inverse_covariance_matrix", key),
               Call("lissa_inverse_covariance_matrix", e1[2]),
               Call("draw_weight_states", e2[2]),
               Call("draw_weight_states", w1[2])>>)))))

\* Lines 215-271: the weight vectors of the step, by method.  The record
\* holds the locals of the branch taken, the advanced key, the sampler and
\* estimator calls made in order, and the exception raised, if any.
Weights(method, Phi, Psi, explicit_weight_matrix, task, key) ==
  CASE method = "explicit" -> ExplicitWeights(explicit_weight_matrix, task, key)
    [] method = "oracle" -> OracleWeights(Phi, Psi, task, key)
    [] method = "naive" -> NaiveWeights(Phi, Psi, task, key)
    [] method = "naive++" -> NaivePlusPlusWeights(Phi, Psi, task, key)
    [] method = "lissa" -> LissaWeights(Phi, Psi, task, key)
    [] OTHER ->
         \* No branch binds covariance_1: line 268 raises.
         [weight_1 |-> NaN, weight_2 |-> NaN,
          covariance_1 |-> None, covariance_2 |-> None,
          weight_states_1 |-> <<>>, weight_states_2 |-> <<>>,
          key |-> key, calls |-> <<>>, raised |-> "UnboundLocalError"]

\* Faulty variant of FeatureNormUpdate: the largest norm is taken over all
\* rows of Phi, not over the rows of the sampled source states.
FeatureNormUpdateAllRows(method, estimate_feature_norm, estimated_feature_norm, Phi, source_states) ==
  IF method = "lissa" /\ estimate_feature_norm
  THEN Bind(compute_max_feature_norm(Phi), LAMBDA max_norm :
         Some(Add(estimated_feature_norm[1],
                  Mul(norm_rate, Sub(max_norm, estimated_feature_norm[1])))))
  ELSE estimated_feature_norm

\* Lines 207-213: the running estimate of the feature norm.
FeatureNormUpdate(method, estimate_feature_norm, estimated_feature_norm, Phi, source_states) ==
  IF method = "lissa" /\ estimate_feature_norm
  THEN Bind(compute_max_feature_norm(Rows(Phi, source_states)), LAMBDA max_norm :
         Some(Add(estimated_feature_norm[1],
                  Mul(norm_rate, Sub(max_norm, estimated_feature_norm[1])))))
  ELSE estimated_feature_norm

\* Lines 274-275.
EstimatedError(Phi, Psi, source_states, task, weight_1) ==
  [i \in DOMAIN source_states |->
     Sub(Mul(Phi[source_states[i]], weight_1), Psi[source_states[i]][task])]

\* Faulty variant of Gradient: the errors are lined up one position off the
\* rows of the batch.
GradientMisaligned(weight_2, estimated_error) ==
  [i \in DOMAIN estimated_error |->
     Mul(weight_2, estimated_error[(i % Len(estimated_error)) + 1])]

\* Lines 279-285: weight_2 tiled over the batch, each row scaled by its error.
Gradient(weight_2, estimated_error) ==
  [i \in DOMAIN estimated_error |-> Mul(weight_2, estimated_error[i])]

\* Line 292: the rows written by the update.
Updates(Phi, source_states, gradient) ==
  [i \in DOMAIN source_states |->
     Sub(Phi[source_states[i]], Mul(learning_rate, gradient[i]))]

\* Faulty variant of ScatterSet: the updates are written to the leading rows
\* of Phi, not to the rows of the source states.
ScatterSetLeadingRows(Phi, source_states, updates) ==
  {[r \in 1..S |-> IF r <= Len(updates) THEN updates[r] ELSE Phi[r]]}

\* Line 291, Phi.at[source_states, :].set(updates): a row drawn more than
\* once takes the update of any one of its positions.
ScatterSet(Phi, source_states, updates) ==
  {[r \in 1..S |-> IF f[r] = 0 THEN Phi[r] ELSE updates[f[r]]] :
     f \in {g \in [1..S -> 0..Len(source_states)] :
              \A r \in 1..S :
                IF \E i \in DOMAIN source_states : source_states[i] = r
                THEN g[r] # 0 /\ source_states[g[r]] = r
                ELSE g[r] = 0}}

\* Lines 294-298: the product the explicit method computes for the column.
WeightGradient(Phi, source_states, estimated_error) ==
  SumSeq([i \in DOMAIN source_states |-> Mul(Phi[source_states[i]], estimated_error[i])])

\* Lines 294-305: what the call hands back once line 291 has produced newPhi.
\* explicit_weight_matrix is a traced jax array: the item assignment of line
\* 298 raises TypeError and leaves the caller's matrix as it was.
Outcome(method, newPhi, norm, source_states, task, w, estimated_error, gradient, calls) ==
  [Phi |-> newPhi, estimated_feature_norm |-> norm, key |-> w.key,
   gradient |-> gradient, source_states |-> source_states, task |-> task,
   weight_1 |-> w.weight_1, weight_2 |-> w.weight_2,
   covariance_1 |-> w.covariance_1, covariance_2 |-> w.covariance_2,
   weight_states_1 |-> w.weight_states_1,
   weight_states_2 |-> w.weight_states_2,
   weight_gradient |-> IF method = "explicit" /\ w.raised = ""
                       THEN WeightGradient(newPhi, source_states, estimated_error)
                       ELSE 0,
   calls |-> calls,
   raised |-> IF w.raised # "" THEN w.raised
              ELSE IF method = "explicit" THEN "TypeError" ELSE ""]

\* Lines 200-305.  The set of outcomes of one call: a record of the values
\* returned (Phi, estimated_feature_norm, key, gradient), the locals, the
\* calls made in order and the exception raised ("" when the call returns).
train_step(Phi, Psi, explicit_weight_matrix, estimated_feature_norm, key, method, estimate_feature_norm) ==
  Bind(draw_states(S, main_batch_size, key), LAMBDA src :
  Bind(draw_states(T, 1, src[2]), LAMBDA tsk :
  Bind(FeatureNormUpdate(method, estimate_feature_norm, estimated_feature_norm,
                         Phi, src[1]), LAMBDA norm :
  Bind(Weights(method, Phi, Psi, explicit_weight_matrix, tsk[1][1], tsk[2]),
       LAMBDA w :
  Bind(EstimatedError(Phi, Psi, src[1], tsk[1][1], w.weight_1),
       LAMBDA estimated_error :
  Bind(Gradient(w.weight_2, estimated_error), LAMBDA gradient :
  Bind(<<Call("draw_source_states", key), Call("draw_task", src[2])>>
       \o (IF method = "lissa" /\ estimate_feature_norm
           THEN <<Call("feature_norm", None)>> ELSE <<>>)
       \o w.calls, LAMBDA calls :
    IF w.raised # ""
    THEN {Outcome(method, Phi, norm, src[1], tsk[1][1], w, estimated_error,
                  gradient, calls)}
    ELSE {Outcome(method, p, norm, src[1], tsk[1][1], w, estimated_error,
                  gradient, calls) :
            p \in ScatterSet(Phi, src[1], Updates(Phi, src[1], gradient))})))))))

\* ------------------------------------------------------------- state ----
VARIABLES
  method, optimizer, num_epochs, estimate_feature_norm, seed,  \* _config
  checkpoints,             \* the checkpoint store: the (step, Phi) pairs saved
  pc,                      \* "main", "train", "loop", "done" or "error"
  raised,                  \* the exception that ended the run, "" if none
  key, Psi, initial_step,                         \* locals of main and train
  Phi_main,                \* Phi as main holds it, the argument of train
  Phi,                     \* Phi as train holds it
  Phis, estimated_feature_norm, explicit_weight_matrix, step,
  written,                 \* the steps whose metrics went to the writer, in order
  saves,                   \* per save of the hook: its step, and how many metric
                           \* writes and snapshots there were when it ran
  result,                  \* the stacked trajectory train returned, or None
  last,                    \* arguments and outcome of the latest _train_step
  keyLog,                  \* every generator state passed to a call, in order
  twin                     \* a second run of train() on the same arguments

config == <<method, optimizer, num_epochs, estimate_feature_norm, seed>>
vars == <<method, optimizer, num_epochs, estimate_feature_norm, seed, checkpoints,
          pc, raised, key, Psi, initial_step, Phi_main, Phi, Phis,
          estimated_feature_norm,
          explicit_weight_matrix, step, written, saves, result, last, keyLog,
          twin>>

\* Feature matrices a checkpoint written by an earlier run may hold.
CheckpointPhis == {[s \in 1..S |-> (s * c + 1) % Modulus] : c \in 0..2}
TwinOff == [pc |-> "off"]

InitState ==
  /\ method \in MethodTags
  /\ optimizer \in Optimizers
  /\ estimate_feature_norm \in BOOLEAN
  /\ seed \in 0..MaxSeed
  /\ pc = "main"
  /\ raised = ""
  /\ key = None
  /\ Psi = None
  /\ Phi_main = None
  /\ Phi = None
  /\ initial_step = 0
  /\ Phis = <<>>
  /\ estimated_feature_norm = None
  /\ explicit_weight_matrix = None
  /\ step = 0
  /\ written = <<>>
  /\ saves = <<>>
  /\ result = None
  /\ last = None
  /\ keyLog = <<>>
  /\ num_epochs \in 0..MaxEpochs

\* Runs that start fresh, and runs that resume from the checkpoint an
\* earlier run saved at step every_steps.
Init ==
  /\ InitState
  /\ twin = TwinOff
  /\ checkpoints \in {<<>>} \cup {<< <<every_steps, p>> >> : p \in CheckpointPhis}

\* Lines 427-451: main up to the call of train.
Main ==
  /\ pc = "main"
  /\ LET ks == split(PRNGKey(seed), 3)
         fresh == normal(ks[3], S * d)
         flat == normal(ks[2], S * T)
         restored == IF checkpoints = <<>> THEN <<0, fresh>>
                     ELSE checkpoints[Len(checkpoints)]
     IN /\ key' = ks[1]
        /\ Psi' = [s \in 1..S |-> [t \in 1..T |-> flat[(s - 1) * T + t]]]
        /\ initial_step' = restored[1]
        /\ Phi_main' = restored[2]
        /\ keyLog' = keyLog \o <<Call("split", PRNGKey(seed)), Call("normal", ks[2]),
                                 Call("normal", ks[3])>>
        /\ twin' = IF twin.pc = "wait"
                   THEN [pc |-> "train", Phi |-> restored[2], key |-> ks[1],
                         initial_step |-> restored[1]]
                   ELSE twin
  /\ pc' = "train"
  /\ UNCHANGED <<config, checkpoints, raised, Phi, Phis, estimated_feature_norm,
                 explicit_weight_matrix, step, written, saves, result, last>>

\* Faulty variant of train_setup: the trajectory starts empty.
train_setup_NoSnapshot(Phi0, key0, initial_step0) ==
  LET ks == split(key0, 2)
  IN [Phi |-> Phi0,
      Phis |-> <<>>,
      estimated_feature_norm |->
        IF estimate_feature_norm
        THEN Some(compute_max_feature_norm([s \in 1..S |-> Phi0[s]]))
        ELSE None,
      key |-> ks[1],
      explicit_weight_matrix |-> normal(ks[2], d * T),
      step |-> initial_step0,
      calls |-> <<Call("split", key0), Call("normal", ks[2])>>,
      raised |-> IF optimizer = "sgd" THEN "" ELSE "AssertionError"]

\* Faulty variant of train_setup: the optimizer is not checked.
train_setup_NoAssert(Phi0, key0, initial_step0) ==
  LET ks == split(key0, 2)
  IN [Phi |-> Phi0,
      Phis |-> <<Phi0>>,
      estimated_feature_norm |->
        IF estimate_feature_norm
        THEN Some(compute_max_feature_norm([s \in 1..S |-> Phi0[s]]))
        ELSE None,
      key |-> ks[1],
      explicit_weight_matrix |-> normal(ks[2], d * T),
      step |-> initial_step0,
      calls |-> <<Call("split", key0), Call("normal", ks[2])>>,
      raised |-> ""]

\* Lines 355-401: the locals of train before its loop, and the exception of
\* the assertion of line 374, if it fails.
train_setup(Phi0, key0, initial_step0) ==
  LET ks == split(key0, 2)
  IN [Phi |-> Phi0,
      Phis |-> <<Phi0>>,
      estimated_feature_norm |->
        IF estimate_feature_norm
        THEN Some(compute_max_feature_norm([s \in 1..S |-> Phi0[s]]))
        ELSE None,
      key |-> ks[1],
      explicit_weight_matrix |-> normal(ks[2], d * T),
      step |-> initial_step0,
      calls |-> <<Call("split", key0), Call("normal", ks[2])>>,
      raised |-> IF optimizer = "sgd" THEN "" ELSE "AssertionError"]

TrainSetup ==
  /\ pc = "train"
  /\ LET t == train_setup(Phi_main, key, initial_step)
     IN /\ Phi' = t.Phi
        /\ Phis' = t.Phis
        /\ estimated_feature_norm' = t.estimated_feature_norm
        /\ key' = t.key
        /\ explicit_weight_matrix' = t.explicit_weight_matrix
        /\ step' = t.step
        /\ keyLog' = keyLog \o t.calls
        /\ raised' = t.raised
        /\ pc' = IF t.raised = "" THEN "loop" ELSE "error"
  /\ UNCHANGED <<config, checkpoints, Psi, Phi_main, initial_step, written, saves, result,
                 last, twin>>

\* The keys among the calls of a step, in order.
KeysOf(calls) == SelectSeq(calls, LAMBDA c : c[2] # None)

\* clu PeriodicCallback(every_steps): the callback runs at the multiples.
HookFires(n) == n % every_steps = 0

\* Faulty variant of SavedPair: the callback holds the Phi of the time it was
\* made, not the variable.
SavedPairStale(n, before, after) == <<n, before>>

\* Line 383: the pair the callback saves.  Its Phi is the variable of train,
\* read when the callback runs: before is Phi as the iteration found it,
\* after is Phi as line 413 rebound it.
SavedPair(n, before, after) == <<n, after>>

\* Lines 405-422: one iteration of the loop of train.
TrainIteration ==
  /\ pc = "loop"
  /\ step < num_epochs
  /\ \E out \in train_step(Phi, Psi, explicit_weight_matrix, estimated_feature_norm,
                           key, method, estimate_feature_norm) :
       /\ last' = Some([step |-> step + 1, Phi |-> Phi,
                        estimated_feature_norm |-> estimated_feature_norm,
                        key |-> key,
                        explicit_weight_matrix |-> explicit_weight_matrix,
                        out |-> out])
       /\ keyLog' = keyLog \o KeysOf(out.calls)
       /\ step' = step + 1
       /\ IF out.raised # ""
          THEN /\ pc' = "error"
               /\ raised' = out.raised
               /\ UNCHANGED <<Phi, estimated_feature_norm, key, Phis, written, saves,
                              checkpoints>>
          ELSE /\ Phi' = out.Phi
               /\ estimated_feature_norm' = out.estimated_feature_norm
               /\ key' = out.key
               /\ Phis' = Append(Phis, out.Phi)
               /\ written' = Append(written, step + 1)
               /\ saves' = IF HookFires(step + 1)
                           THEN Append(saves, [step |-> step + 1,
                                               written |-> Len(written'),
                                               appended |-> Len(Phis')])
                           ELSE saves
               /\ checkpoints' = IF HookFires(step + 1)
                                 THEN Append(checkpoints, SavedPair(step + 1, Phi, out.Phi))
                                 ELSE checkpoints
               /\ UNCHANGED <<pc, raised>>
  /\ UNCHANGED <<config, Psi, initial_step, Phi_main, explicit_weight_matrix, result,
                 twin>>

\* Line 424, and lines 471-472 of main: the loop is over, the trajectory is
\* stacked, returned and written.
TrainReturn ==
  /\ pc = "loop"
  /\ step >= num_epochs
  /\ result' = Some(Phis)
  /\ pc' = "done"
  /\ UNCHANGED <<config, checkpoints, raised, key, Psi, Phi_main, Phi, initial_step, Phis,
                 estimated_feature_norm, explicit_weight_matrix, step, written, saves, last,
                 keyLog, twin>>

Next == Main \/ TrainSetup \/ TrainIteration \/ TrainReturn

Spec == Init /\ [][Next]_vars

\* ------------------------------------------------------- a second run ----
\* train() called a second time on the arguments main gave the first call.
TwinSetup ==
  /\ twin.pc = "train"
  /\ LET t == train_setup(twin.Phi, twin.key, twin.initial_step)
     IN twin' = [pc |-> IF t.raised = "" THEN "loop" ELSE "error",
                 Phi |-> t.Phi, Phis |-> t.Phis,
                 estimated_feature_norm |-> t.estimated_feature_norm,
                 key |-> t.key,
                 explicit_weight_matrix |-> t.explicit_weight_matrix,
                 step |-> t.step, source_states |-> <<>>, task |-> 0,
                 raised |-> t.raised, result |-> None]
  /\ UNCHANGED <<config, checkpoints, pc, raised, key, Psi, initial_step, Phi_main, Phi,
                 Phis, estimated_feature_norm, explicit_weight_matrix, step, written, saves,
                 result, last, keyLog>>

TwinIteration ==
  /\ twin.pc = "loop"
  /\ twin.step < num_epochs
  /\ \E out \in train_step(twin.Phi, Psi, twin.explicit_weight_matrix,
                           twin.estimated_feature_norm, twin.key, method,
                           estimate_feature_norm) :
       twin' = IF out.raised # ""
               THEN [twin EXCEPT !.pc = "error", !.raised = out.raised,
                                 !.step = twin.step + 1,
                                 !.source_states = out.source_states,
                                 !.task = out.task]
               ELSE [twin EXCEPT !.Phi = out.Phi,
                                 !.Phis = Append(twin.Phis, out.Phi),
                                 !.estimated_feature_norm = out.estimated_feature_norm,
                                 !.key = out.key,
                                 !.step = twin.step + 1,
                                 !.source_states = out.source_states,
                                 !.task = out.task]
  /\ UNCHANGED <<config, checkpoints, pc, raised, key, Psi, initial_step, Phi_main, Phi,
                 Phis, estimated_feature_norm, explicit_weight_matrix, step, written, saves,
                 result, last, keyLog>>

TwinReturn ==
  /\ twin.pc = "loop"
  /\ twin.step >= num_epochs
  /\ twin' = [twin EXCEPT !.pc = "done", !.result = Some(twin.Phis)]
  /\ UNCHANGED <<config, checkpoints, pc, raised, key, Psi, initial_step, Phi_main, Phi,
                 Phis, estimated_feature_norm, explicit_weight_matrix, step, written, saves,
                 result, last, keyLog>>

\* Two fresh runs (no checkpoint to resume from) of the same configuration.
InitTwin ==
  /\ InitState
  /\ twin = [pc |-> "wait"]
  /\ checkpoints = <<>>

NextTwin == Next \/ TwinSetup \/ TwinIteration \/ TwinReturn

SpecTwin == InitTwin /\ [][NextTwin]_vars

\* ------------------------------------------------------------- claims ----
Called == last # None
Args == last[1]
Out == last[1].out
Sampled == Range(last[1].out.source_states)
Executed == IF num_epochs > initial_step THEN num_epochs - initial_step ELSE 0
Distinct(xs) == \A i, j \in DOMAIN xs : i # j => xs[i] # xs[j]
CallsOf(fns) == SelectSeq(Out.calls, LAMBDA c : c[1] \in fns)
Estimators == {"naive_inverse_covariance_matrix", "lissa_inverse_covariance_matrix"}

C2_OnlySampledRowsChange ==
  Called =>
    /\ \A r \in 1..S : r \notin Sampled => Out.Phi[r] = Args.Phi[r]
    /\ Out.raised = "" => Phi = Out.Phi

C2_Witness ==
  /\ Called
  /\ method \in Methods
  /\ Out.raised = ""
  /\ Cardinality(Sampled) < main_batch_size
  /\ \E r \in 1..S : r \notin Sampled
  /\ \E r \in Sampled : Out.Phi[r] # Args.Phi[r]

\* C3: with the explicit method the weight matrix co-evolves with Phi: after
\* a step that sampled task t the loop goes on, and the column t it hands to
\* the next step is the updated one.
C3_ExplicitMatrixCoEvolves ==
  (Called /\ method = "explicit") =>
    /\ pc # "error"
    /\ explicit_weight_matrix[Out.task] =
         Sub(Args.explicit_weight_matrix[Out.task],
             Mul(learning_rate, Out.weight_gradient))

\* C4: a step of the explicit method changes the column of the sampled task
\* of the explicit weight matrix by learning_rate * Phi[source_states]^T *
\* error and no other column; a step of another method changes no column.
C4_OneColumnUpdated ==
  [][(last' # last /\ last' # None) =>
       \A t \in 1..T :
         explicit_weight_matrix'[t] =
           IF method = "explicit" /\ t = last'[1].out.task
           THEN Sub(explicit_weight_matrix[t],
                    Mul(learning_rate, last'[1].out.weight_gradient))
           ELSE explicit_weight_matrix[t]]_vars

\* C5: with the oracle method both weights of a step are the same value from
\* the same covariance and the same weight states, all of 1..S, and the
\* generator is advanced by the source-state draw and the task draw alone:
\* no estimator and no weight-state draw is called.
C5_OracleUsesNoRandomness ==
  (Called /\ method = "oracle") =>
    /\ Out.weight_1 = Out.weight_2
    /\ Out.covariance_1 = Out.covariance_2
    /\ Out.weight_states_1 = [s \in 1..S |-> s]
    /\ Out.weight_states_2 = Out.weight_states_1
    /\ Out.calls = <<Call("draw_source_states", Args.key),
                     Call("draw_task", draw_states(S, main_batch_size, Args.key)[2])>>
    /\ Out.key = draw_states(T, 1, draw_states(S, main_batch_size, Args.key)[2])[2]
    /\ key = Out.key

C5_Witness ==
  /\ Called
  /\ method = "oracle"
  /\ Out.weight_1 \notin {0, NaN}
  /\ Out.Phi # Args.Phi
  /\ step >= initial_step + 2

\* C6: with method lissa and estimate_feature_norm set, a step replaces the
\* running estimate once, by estimated + 0.01 * (m - estimated) with m the
\* largest norm of the rows of the incoming Phi at the sampled source states,
\* and does so before the LISSA estimator calls; otherwise the step returns
\* the estimate as it got it.
C6_FeatureNormEstimate ==
  Called =>
    IF method = "lissa" /\ estimate_feature_norm
    THEN /\ \E m \in {Norm(Args.Phi[s]) : s \in Sampled} :
              /\ \A s \in Sampled : Norm(Args.Phi[s]) <= m
              /\ Out.estimated_feature_norm =
                   Some(Add(Args.estimated_feature_norm[1],
                            Mul(norm_rate, Sub(m, Args.estimated_feature_norm[1]))))
         /\ Len(CallsOf({"feature_norm"})) = 1
         /\ \A i, j \in DOMAIN Out.calls :
              (Out.calls[i][1] = "feature_norm" /\ Out.calls[j][1] \in Estimators)
                => i < j
         /\ estimated_feature_norm = Out.estimated_feature_norm
    ELSE /\ Out.estimated_feature_norm = Args.estimated_feature_norm
         /\ CallsOf({"feature_norm"}) = <<>>
         /\ estimated_feature_norm = Args.estimated_feature_norm

C6_Witness ==
  /\ Called
  /\ method = "lissa"
  /\ estimate_feature_norm
  /\ Out.estimated_feature_norm # Args.estimated_feature_norm
  /\ Out.estimated_feature_norm[1] # NaN
  /\ Len(CallsOf(Estimators)) = 2
  /\ compute_max_feature_norm(Rows(Args.Phi, Out.source_states))
       # compute_max_feature_norm(Rows(Out.Phi, Out.source_states))

\* C7, as stated: with an optimizer other than sgd or an unknown method tag
\* the run never completes, and nothing of training has happened: no update
\* of Phi, no metric written, no snapshot appended, no checkpoint saved.
Misconfigured == optimizer # "sgd" \/ method \notin Methods
NothingTrained ==
  /\ written = <<>>
  /\ saves = <<>>
  /\ Phis \in {<<>>, <<Phi_main>>}
  /\ Phi \in {None, Phi_main}
  /\ result \in {None, Some(<<Phi_main>>)}
C7_MisuseIsFatal ==
  Misconfigured => (pc # "done" /\ NothingTrained)

\* C7, amended: an optimizer other than sgd fails the assertion of train
\* before the loop; an unknown method tag fails in the first training step,
\* so a run that has no step to execute (num_epochs <= initial_step) returns
\* normally; in all these runs nothing of training happens.
C7_MisuseIsFatalAtFirstStep ==
  Misconfigured =>
    /\ NothingTrained
    /\ pc = "done" => (optimizer = "sgd" /\ num_epochs <= initial_step)
    /\ pc = "loop" => (optimizer = "sgd" /\ step = initial_step)
    /\ pc = "error" =>
         IF optimizer # "sgd" THEN raised = "AssertionError" /\ ~Called
         ELSE raised = "UnboundLocalError" /\ step = initial_step + 1

C7_Witness ==
  /\ method \notin Methods
  /\ optimizer = "sgd"
  /\ pc = "error"
  /\ raised = "UnboundLocalError"
  /\ Called

\* C8: two fresh runs of train on the same key, Phi, Psi and configuration
\* agree at every step index: same source states and task, same Phi, running
\* norm estimate and key, same trajectory.
TwinRunning == twin.pc \in {"loop", "done", "error"}
C9_KeysNeverReused ==
  /\ Distinct([i \in DOMAIN keyLog |-> keyLog[i][2]])
  /\ (Called /\ method \in {"naive++", "lissa"}) =>
       /\ Len(CallsOf(Estimators)) = 2
       /\ Len(CallsOf({"draw_weight_states"})) = 2
       /\ Distinct(CallsOf(Estimators) \o CallsOf({"draw_weight_states"}))
  /\ (Called /\ method = "naive") =>
       /\ Len(CallsOf(Estimators)) = 1
       /\ Len(CallsOf({"draw_weight_states"})) = 1
       /\ Out.covariance_2 = Out.covariance_1
       /\ Out.weight_states_2 = Out.weight_states_1

C9_Witness ==
  /\ Called
  /\ method = "naive++"
  /\ step = initial_step + 2
  /\ pc = "loop"
  /\ Out.covariance_1 # Out.covariance_2
  /\ Out.weight_states_1 # Out.weight_states_2

\* C10: the loop executes the steps initial_step+1 .. num_epochs once each in
\* increasing order; the hook saves at the multiples of every_steps and at no
\* other step, after the metrics of the step are written and its snapshot is
\* appended, and the pair saved holds the Phi the step produced.
SavedSteps == [i \in DOMAIN saves |-> saves[i].step]
C10_LoopAndCheckpoints ==
  /\ written = [i \in DOMAIN written |-> initial_step + i]
  /\ pc = "loop" => step = initial_step + Len(written)
  /\ pc = "done" => Len(written) = Executed
  /\ pc \in {"loop", "done", "error"} => Len(Phis) = Len(written) + 1
  /\ Range(SavedSteps) = {n \in Range(written) : n % every_steps = 0}
  /\ \A i \in DOMAIN saves :
       /\ i > 1 => saves[i - 1].step < saves[i].step
       /\ saves[i].written = saves[i].step - initial_step
       /\ saves[i].appended = saves[i].written + 1
       /\ checkpoints[Len(checkpoints) - Len(saves) + i]
            = <<saves[i].step, Phis[saves[i].appended]>>

C10_Witness ==
  /\ pc = "done"
  /\ initial_step > 0
  /\ Len(saves) = 1
  /\ Len(checkpoints) = 2
  /\ checkpoints[Len(checkpoints)][1] = saves[Len(saves)].step
  /\ checkpoints[Len(checkpoints)][2] # Phis[1]
  /\ checkpoints[Len(checkpoints)][2] # Phis[saves[Len(saves)].appended - 1]
  /\ Len(written) > saves[Len(saves)].written

====
